---------------------------- MODULE Spec2Model ----------------------------
(***************************************************************************)
(* Model of the skill extraction and semantic matching engine of           *)
(* cv-jd-analysis-tool: SkillExtractor (src/src/extractor.py),             *)
(* SkillMatcher (src/src/matcher.py) and the threshold handling of the     *)
(* Streamlit front end (src/app.py).                                       *)
(*                                                                         *)
(* A Python str is a sequence of one-character strings, so that lower(),   *)
(* the substring test `in` and " ".join are computed, not assumed.  A text *)
(* is given as its sequence of words; the str handed to the code is the    *)
(* words joined by single spaces.                                          *)
(***************************************************************************)
EXTENDS Integers, Sequences, FiniteSets, TLC

VARIABLES
    \* SkillExtractor and the calls made on it
    skill_dict,     \* SkillExtractor.skill_dict (data/skills.json)
    nlp,            \* the analysis backend the extractor loads (spacy.load)
    texts,          \* the texts of this run, each a sequence of words
    is_jd_list,     \* the is_jd flag of each text
    nlp_fails,      \* nlp_fails[i]: the backend raises while analysing text i
    single,         \* results of extract_skills(texts[i], is_jd_list[i]), i = 1..Len(single)
    batch,          \* result of batch_extract_skills(texts, is_jd_list)
    batchDone,      \* batch_extract_skills has returned
    \* SkillMatcher and the calls made on it
    similarity_threshold,   \* matcher.config['matcher']['similarity_threshold']
    top_n_matches,          \* matcher.config['matcher']['top_n_matches']
    vectors,                \* the word vectors of the model the matcher loads
    cv_list,         \* the candidates: records (cv_id, cv_skills)
    target_skills,              \* the target skill list
    sim_fail_at,            \* sim_fail_at[k]: the backend call of candidate k's
                            \* compute_similarity that raises (0: none)
    sims,           \* results of compute_similarity for candidates 1..Len(sims)
    matches,        \* results of match_cv_to_jd for candidates 1..Len(matches)
    ranked,         \* result of rank_cvs_against_jd
    rankDone,       \* rank_cvs_against_jd has returned
    \* app.main: one script run per browser session, on the cached matcher
    slider,         \* slider[s]: the threshold session s has chosen
    pc,             \* pc[s]: where session s's script run stands
    results,        \* results[s]: the results list of s's rank call so far
    trying,         \* trying[s]: the try block of s's running compute_similarity call
    pending,        \* pending[s]: compute_similarity's result for s's current candidate
    shown           \* shown[s]: the ranked list s's rank call returned

extractorVars ==
    <<skill_dict, nlp, texts, is_jd_list, nlp_fails, single, batch, batchDone>>
matcherVars ==
    <<similarity_threshold, top_n_matches, vectors, cv_list, target_skills,
      sim_fail_at, sims, matches, ranked, rankDone>>
appVars == <<slider, pc, results, trying, pending, shown>>

vars == <<extractorVars, matcherVars, appVars>>

---------------------------------------------------------------------------
(* Python str operations *)

UpperAlpha == <<"A","B","C","D","E","F","G","H","I","J","K","L","M",
                "N","O","P","Q","R","S","T","U","V","W","X","Y","Z">>
LowerAlpha == <<"a","b","c","d","e","f","g","h","i","j","k","l","m",
                "n","o","p","q","r","s","t","u","v","w","x","y","z">>

\* str.lower() on one character
LowerChar(c) ==
    IF \E i \in DOMAIN UpperAlpha : UpperAlpha[i] = c
    THEN LowerAlpha[CHOOSE i \in DOMAIN UpperAlpha : UpperAlpha[i] = c]
    ELSE c

\* str.lower()
Lower(s) == [i \in DOMAIN s |-> LowerChar(s[i])]

\* `sub in s` for two str
Contains(sub, s) ==
    \E i \in 0..(Len(s) - Len(sub)) : SubSeq(s, i + 1, i + Len(sub)) = sub

\* sep.join(words)
RECURSIVE Join(_, _)
Join(words, sep) ==
    IF words = <<>> THEN <<>>
    ELSE IF Len(words) = 1 THEN words[1]
    ELSE words[1] \o sep \o Join(Tail(words), sep)

Space == <<" ">>

\* the str of a text given as its words
TextOf(words) == Join(words, Space)

Range(s) == {s[i] : i \in DOMAIN s}

---------------------------------------------------------------------------
(* Words used in dictionaries and texts *)

wPy         == <<"P","y">>
wpy         == <<"p","y">>
wPython     == <<"p","y","t","h","o","n">>
wPython3    == <<"p","y","t","h","o","n","3">>
wJava       == <<"j","a","v","a">>
wJs         == <<"j","s">>
wJavascript == <<"j","a","v","a","s","c","r","i","p","t">>
wSkills     == <<"S","k","i","l","l","s">>
wUse        == <<"u","s","e">>
wRequired   == <<"r","e","q","u","i","r","e","d">>
wQualifications == <<"q","u","a","l","i","f","i","c","a","t","i","o","n","s">>
wskills     == <<"s","k","i","l","l","s">>
wMustHave   == <<"m","u","s","t"," ","h","a","v","e">>

---------------------------------------------------------------------------
(* SkillExtractor.__init__: the dictionary and its flattened patterns.     *)
(* A dictionary is the sequence of its categories (json.load keeps the     *)
(* file's order), a category the sequence of its entries.                  *)

Entry(canonical, synonyms) == [canonical |-> canonical, synonyms |-> synonyms]

\* {"lang": {"python": ["py"]}}
DictScenario == << << Entry(wPython, <<wpy>>) >> >>
\* {"lang": {"python": ["Py"]}}: a synonym written with a capital
DictMixedCase == << << Entry(wPython, <<wPy>>) >> >>
\* {"lang": {"python": ["py", "python3"], "java": []}, "web": {"js": ["javascript"]}}
DictTwoCategories ==
    << << Entry(wPython, <<wpy, wPython3>>), Entry(wJava, <<>>) >>,
       << Entry(wJs, <<wJavascript>>) >> >>

Dicts == {DictScenario, DictMixedCase, DictTwoCategories}

\* all (canonical, synonyms) entries, in iteration order of the nested loops
RECURSIVE Entries(_)
Entries(dict) ==
    IF dict = <<>> THEN <<>> ELSE dict[1] \o Entries(Tail(dict))

\* self.skill_patterns: every canonical followed by its synonyms
RECURSIVE PatternsOf(_)
PatternsOf(entries) ==
    IF entries = <<>> THEN <<>>
    ELSE <<entries[1].canonical>> \o entries[1].synonyms \o PatternsOf(Tail(entries))

SkillPatterns(dict) == PatternsOf(Entries(dict))

Canonicals(dict) == {e.canonical : e \in Range(Entries(dict))}
Synonyms(dict) == UNION {Range(e.synonyms) : e \in Range(Entries(dict))}

---------------------------------------------------------------------------
(* extract_skills: the set `skills` is kept as a duplicate-free sequence   *)
(* (in insertion order; the order of list(skills) is not a contract).      *)

\* list-like accumulation that keeps an element already present
SetAddKeepsDuplicates(skills, canonical) == Append(skills, canonical)

\* skills.add(canonical)
SetAdd(skills, canonical) ==
    IF canonical \in Range(skills) THEN skills ELSE Append(skills, canonical)

\* for category ...: for canonical, synonyms ...: if skill == canonical or
\* skill in synonyms: skills.add(canonical)
RECURSIVE AddCanonicals(_, _, _)
AddCanonicals(skills, skill, entries) ==
    IF entries = <<>> THEN skills
    ELSE LET e == entries[1]
             hit == skill = e.canonical \/ skill \in Range(e.synonyms)
         IN AddCanonicals(IF hit THEN SetAdd(skills, e.canonical) ELSE skills,
                          skill, Tail(entries))

\* for skill in self.skill_patterns: if skill in <haystack>: <add canonicals>
RECURSIVE ScanSubstring(_, _, _, _)
ScanSubstring(skills, patterns, haystack, entries) ==
    IF patterns = <<>> THEN skills
    ELSE ScanSubstring(
            IF Contains(patterns[1], haystack)
            THEN AddCanonicals(skills, patterns[1], entries) ELSE skills,
            Tail(patterns), haystack, entries)

\* for skill in self.skill_patterns: if token.text.lower() == skill: <add canonicals>
RECURSIVE ScanExact(_, _, _, _)
ScanExact(skills, patterns, token, entries) ==
    IF patterns = <<>> THEN skills
    ELSE ScanExact(
            IF Lower(token) = patterns[1]
            THEN AddCanonicals(skills, patterns[1], entries) ELSE skills,
            Tail(patterns), token, entries)

---------------------------------------------------------------------------
(* The analysis backend as the extractor uses it: self.nlp(text.lower())   *)
(* gives a Doc with tokens, sentences (doc.sents) and noun chunks          *)
(* (doc.noun_chunks).  Tokens are the whitespace-separated words; a        *)
(* sentence and a chunk are contiguous token spans, whose text is the      *)
(* tokens joined by spaces.  How the loaded model segments and chunks is   *)
(* the model's business: nlp.segmenter and nlp.chunker name one of the     *)
(* behaviours below.                                                       *)

Segmenters == {"whole", "perToken"}
Chunkers == {"none", "perToken", "whole", "pairs"}
Backends == [segmenter : Segmenters, chunker : Chunkers]

Span(from, to) == [from |-> from, to |-> to]

PerToken(n) == [i \in 1..n |-> Span(i, i)]
Whole(n) == IF n = 0 THEN <<>> ELSE <<Span(1, n)>>
Pairs(n) == [i \in 1..(n - 1) |-> Span(i, i + 1)]

\* the tokens of text.lower(): the lowered words
LowerWords(words) == [i \in DOMAIN words |-> Lower(words[i])]

\* doc = self.nlp(text.lower())
Doc(backend, lowerWords) ==
    LET n == Len(lowerWords)
    IN [tokens |-> lowerWords,
        sents  |-> IF backend.segmenter = "whole" THEN Whole(n) ELSE PerToken(n),
        noun_chunks |-> CASE backend.chunker = "none" -> <<>>
                          [] backend.chunker = "perToken" -> PerToken(n)
                          [] backend.chunker = "whole" -> Whole(n)
                          [] OTHER -> Pairs(n)]

\* span.text
SpanText(doc, span) == TextOf(SubSeq(doc.tokens, span.from, span.to))

\* jd_indicators = ["required", "qualifications", "skills", "must have"]
jd_indicators == <<wRequired, wQualifications, wskills, wMustHave>>

\* for chunk in doc.noun_chunks: for skill in patterns: if skill in chunk.text.lower()
RECURSIVE ScanChunks(_, _, _, _, _)
ScanChunks(skills, chunks, doc, patterns, entries) ==
    IF chunks = <<>> THEN skills
    ELSE ScanChunks(
            ScanSubstring(skills, patterns, Lower(SpanText(doc, chunks[1])), entries),
            Tail(chunks), doc, patterns, entries)

\* for token in sent: for skill in patterns: if token.text.lower() == skill
RECURSIVE ScanTokens(_, _, _, _)
ScanTokens(skills, tokens, patterns, entries) ==
    IF tokens = <<>> THEN skills
    ELSE ScanTokens(ScanExact(skills, patterns, tokens[1], entries),
                    Tail(tokens), patterns, entries)

\* for sent in doc.sents: if any(indicator in sent.text.lower() ...): <scan tokens>
RECURSIVE ScanSents(_, _, _, _, _)
ScanSents(skills, sents, doc, patterns, entries) ==
    IF sents = <<>> THEN skills
    ELSE LET sent == sents[1]
             indicated == \E k \in DOMAIN jd_indicators :
                              Contains(jd_indicators[k], Lower(SpanText(doc, sent)))
         IN ScanSents(
                IF indicated
                THEN ScanTokens(skills, SubSeq(doc.tokens, sent.from, sent.to),
                                patterns, entries)
                ELSE skills,
                Tail(sents), doc, patterns, entries)

\* The three scans of extract_skills (lines 109-140), which
\* batch_extract_skills repeats statement for statement (lines 178-207).
\* a substring scan of the text as given, not lowered
SubstringScanRawText(words, dict) ==
    ScanSubstring(<<>>, SkillPatterns(dict), TextOf(words), Entries(dict))

SubstringScan(words, dict) ==
    ScanSubstring(<<>>, SkillPatterns(dict), Lower(TextOf(words)), Entries(dict))

NounChunkScan(skills, doc, dict) ==
    ScanChunks(skills, doc.noun_chunks, doc, SkillPatterns(dict), Entries(dict))

JdContextScan(skills, doc, dict) ==
    ScanSents(skills, doc.sents, doc, SkillPatterns(dict), Entries(dict))

ThreeScans(words, is_jd, doc, dict) ==
    LET s1 == SubstringScan(words, dict)
        s2 == NounChunkScan(s1, doc, dict)
    IN IF is_jd THEN JdContextScan(s2, doc, dict) ELSE s2

\* SkillExtractor.extract_skills(text, is_jd); `fails`: the backend raises
\* inside the try block
extract_skills(words, is_jd, backend, fails, dict) ==
    IF TextOf(words) = <<>> THEN <<>>
    ELSE IF fails THEN <<>>
    ELSE ThreeScans(words, is_jd, Doc(backend, LowerWords(words)), dict)

Min(a, b) == IF a < b THEN a ELSE b

\* SkillExtractor.batch_extract_skills(texts, is_jd_list); fails[i]: the
\* backend raises on text i, in nlp.pipe or while its doc is read
batch_extract_skills(ts, flags, backend, fails, dict) ==
    IF ts = <<>> THEN <<>>
    ELSE IF \E i \in DOMAIN ts : fails[i]
    THEN [i \in DOMAIN ts |-> <<>>]
    ELSE [i \in 1..Min(Len(ts), Len(flags)) |->
             ThreeScans(ts[i], flags[i], Doc(backend, LowerWords(ts[i])), dict)]

---------------------------------------------------------------------------
(* SkillMatcher.  A similarity is an integer number of 1/1440ths, so that  *)
(* the averages and the halving of compute_similarity are exact for skill  *)
(* lists of up to four skills.  In the matcher a skill is an opaque word.  *)

Fifth == 288            \* the similarity 0.2
One == 5 * Fifth        \* the similarity 1.0

Skills == {"python", "java", "sql"}

\* the vectors of the loaded model: "vectors" tells related skills apart,
\* "blank" has no vectors (every similarity is 0.0), "signed" gives
\* unrelated skills a negative cosine
VectorTables == {"vectors", "blank", "signed"}

\* nlp(a).similarity(nlp(b)) for two one-word texts
WordSimilarity(table, a, b) ==
    CASE table = "blank" -> 0
      [] a = b -> One
      [] table = "signed" -> 0 - Fifth
      [] {a, b} = {"python", "java"} -> 3 * Fifth
      [] {a, b} = {"python", "sql"} -> 2 * Fifth
      [] OTHER -> Fifth

RECURSIVE SumSeq(_)
SumSeq(s) == IF s = <<>> THEN 0 ELSE s[1] + SumSeq(Tail(s))

\* nlp(" ".join(a)).similarity(nlp(" ".join(b))): the mean similarity of
\* the word pairs; 0.0 when a document has no words
DocSimilarity(table, a, b) ==
    IF a = <<>> \/ b = <<>> THEN 0
    ELSE SumSeq([k \in 1..(Len(a) * Len(b)) |->
                    WordSimilarity(table, a[((k - 1) \div Len(b)) + 1],
                                          b[((k - 1) % Len(b)) + 1])])
         \div (Len(a) * Len(b))

\* the inner loop of compute_similarity (lines 61-68) from jd_skills[j] on
RECURSIVE BestMatch(_, _, _, _, _, _)
BestMatch(table, cv_skill, jd_skills, j, max_sim, best_match) ==
    IF j > Len(jd_skills) THEN [max_sim |-> max_sim, best_match |-> best_match]
    ELSE LET sim == WordSimilarity(table, cv_skill, jd_skills[j])
         IN IF sim > max_sim
            THEN BestMatch(table, cv_skill, jd_skills, j + 1, sim, jd_skills[j])
            ELSE BestMatch(table, cv_skill, jd_skills, j + 1, max_sim, best_match)

\* f"{cv_skill} -> {best_match} (sim: {max_sim:.2f})", kept as its three parts
Evidence(cv_skill, best_match, max_sim) ==
    [cv_skill |-> cv_skill, best_match |-> best_match, max_sim |-> max_sim]

\* if max_sim >= self.config['matcher']['similarity_threshold']
ReachesThreshold(value, threshold) == value >= threshold

\* One iteration of the outer loop of compute_similarity (lines 59-71), for
\* cv_skill.  `st` is the state of the try block: the two lists, the backend
\* calls made and whether the backend has raised.  The backend raises on its
\* fail_at-th call of this compute_similarity call (0: never).  `threshold`
\* is what self.config holds when this iteration reaches line 69.
PairwiseStep(table, cv_skill, jd_skills, threshold, fail_at, st) ==
    LET calls == st.nlp_calls + 1 + Len(jd_skills)
    IN IF fail_at \in (st.nlp_calls + 1)..calls
       THEN [st EXCEPT !.nlp_calls = fail_at, !.raised = TRUE]
       ELSE LET best == BestMatch(table, cv_skill, jd_skills, 1, 0, "None")
                kept == ReachesThreshold(best.max_sim, threshold)
            IN [st EXCEPT
                  !.nlp_calls = calls,
                  !.similarities = IF kept THEN Append(@, best.max_sim) ELSE @,
                  !.matched_skills =
                      IF kept
                      THEN Append(@, Evidence(cv_skill, best.best_match, best.max_sim))
                      ELSE @]

\* The outer loop of compute_similarity (lines 59-71) from cv_skills[k] on,
\* with nothing writing self.config while it runs.
RECURSIVE PairwiseLoop(_, _, _, _, _, _, _)
PairwiseLoop(table, cv_skills, jd_skills, threshold, fail_at, k, st) ==
    IF k > Len(cv_skills) THEN st
    ELSE LET next == PairwiseStep(table, cv_skills[k], jd_skills, threshold,
                                  fail_at, st)
         IN IF next.raised THEN next
            ELSE PairwiseLoop(table, cv_skills, jd_skills, threshold, fail_at,
                              k + 1, next)

\* the try block of compute_similarity up to the loop (lines 47-56): the two
\* documents and their similarity
TryStart(fail_at) ==
    LET start == [similarities |-> <<>>, matched_skills |-> <<>>,
                  nlp_calls |-> 0, raised |-> FALSE]
    IN IF fail_at \in 1..2
       THEN [start EXCEPT !.nlp_calls = fail_at, !.raised = TRUE]
       ELSE [start EXCEPT !.nlp_calls = 2]

\* the try block of compute_similarity (lines 47-80)
TryBlock(table, cv_skills, jd_skills, threshold, fail_at) ==
    LET st == TryStart(fail_at)
    IN IF st.raised THEN st
       ELSE PairwiseLoop(table, cv_skills, jd_skills, threshold, fail_at, 1, st)

SimilarityResult(score, matched_skills, nlp_calls) ==
    [score |-> score, matched_skills |-> matched_skills, nlp_calls |-> nlp_calls]

\* an except clause that hands back what the loop had collected
OnExceptionKeepsEvidence(st) == SimilarityResult(0, st.matched_skills, st.nlp_calls)

\* except Exception: return 0.0, []  (lines 81-83)
OnException(st) == SimilarityResult(0, <<>>, st.nlp_calls)

\* the guard with `and` in place of `or`
BothEmpty(cv_skills, jd_skills) == cv_skills = <<>> /\ jd_skills = <<>>

\* if not cv_skills or not jd_skills  (line 43)
EitherEmpty(cv_skills, jd_skills) == cv_skills = <<>> \/ jd_skills = <<>>

\* lines 74-77
FinalScore(overall_similarity, similarities) ==
    LET avg_pairwise_sim == IF similarities # <<>>
                            THEN SumSeq(similarities) \div Len(similarities)
                            ELSE 0
    IN (overall_similarity + avg_pairwise_sim) \div 2

\* what compute_similarity returns once its try block has ended in state st
\* (lines 74-83)
Returned(table, cv_skills, jd_skills, st) ==
    IF st.raised THEN OnException(st)
    ELSE SimilarityResult(
            FinalScore(DocSimilarity(table, cv_skills, jd_skills), st.similarities),
            st.matched_skills, st.nlp_calls)

\* SkillMatcher.compute_similarity(cv_skills, jd_skills)
compute_similarity(table, cv_skills, jd_skills, threshold, fail_at) ==
    IF EitherEmpty(cv_skills, jd_skills) THEN SimilarityResult(0, <<>>, 0)
    ELSE Returned(table, cv_skills, jd_skills,
                  TryBlock(table, cv_skills, jd_skills, threshold, fail_at))

MatchResult(cv_id, score, matched, n_cv, n_jd) ==
    [cv_id |-> cv_id, similarity_score |-> score, matched_skills |-> matched,
     total_cv_skills |-> n_cv, total_jd_skills |-> n_jd]

\* a gate that lets only scores above the threshold through
AboveThreshold(score, threshold) == score > threshold

\* if score >= self.config['matcher']['similarity_threshold']  (line 88)
PassesThreshold(score, threshold) == score >= threshold

\* lines 88-97, given compute_similarity's result; None is <<>>, a
\* MatchResult m is <<m>>
GateMatch(sim, cv_skills, jd_skills, cv_id, threshold) ==
    IF PassesThreshold(sim.score, threshold)
    THEN << MatchResult(cv_id, sim.score, sim.matched_skills,
                        Len(cv_skills), Len(jd_skills)) >>
    ELSE <<>>

\* SkillMatcher.match_cv_to_jd(cv_skills, jd_skills, cv_id)
match_cv_to_jd(table, cv_skills, jd_skills, cv_id, threshold, fail_at) ==
    GateMatch(compute_similarity(table, cv_skills, jd_skills, threshold, fail_at),
              cv_skills, jd_skills, cv_id, threshold)

\* an insertion that puts a result before the results of equal score
InsertBeforeEqual(sorted, r) ==
    LET ahead == {i \in DOMAIN sorted : sorted[i].similarity_score > r.similarity_score}
        n == Cardinality(ahead)
    IN SubSeq(sorted, 1, n) \o <<r>> \o SubSeq(sorted, n + 1, Len(sorted))

\* where a stable descending sort puts r among the results sorted so far:
\* after every result whose score is at least r's
InsertStable(sorted, r) ==
    LET ahead == {i \in DOMAIN sorted : sorted[i].similarity_score >= r.similarity_score}
        n == Cardinality(ahead)
    IN SubSeq(sorted, 1, n) \o <<r>> \o SubSeq(sorted, n + 1, Len(sorted))

\* results.sort(key=lambda x: x.similarity_score, reverse=True)  (line 108)
RECURSIVE SortDescending(_, _)
SortDescending(sorted, rest) ==
    IF rest = <<>> THEN sorted
    ELSE SortDescending(InsertStable(sorted, rest[1]), Tail(rest))

\* a slice that is one too long
SliceOneMore(s, n) == SubSeq(s, 1, Min(n + 1, Len(s)))

\* results[:top_n]  (line 113)
Slice(s, n) ==
    IF n >= 0 THEN SubSeq(s, 1, Min(n, Len(s)))
    ELSE SubSeq(s, 1, Len(s) + n)

\* the loop of rank_cvs_against_jd (lines 101-105): the matches, in input order
RECURSIVE CollectMatches(_, _, _, _, _, _)
CollectMatches(table, cv_skills_list, jd_skills, threshold, fail_ats, k) ==
    IF k > Len(cv_skills_list) THEN <<>>
    ELSE match_cv_to_jd(table, cv_skills_list[k].cv_skills, jd_skills,
                        cv_skills_list[k].cv_id, threshold, fail_ats[k])
         \o CollectMatches(table, cv_skills_list, jd_skills, threshold, fail_ats, k + 1)

\* SkillMatcher.rank_cvs_against_jd(cv_skills_list, jd_skills)
rank_cvs_against_jd(table, cv_skills_list, jd_skills, threshold, top_n, fail_ats) ==
    Slice(SortDescending(<<>>,
              CollectMatches(table, cv_skills_list, jd_skills, threshold, fail_ats, 1)),
          top_n)

---------------------------------------------------------------------------
(* Extraction runs: the inputs are drawn in Init, the actions call the two *)
(* entry points on them.                                                   *)

MaxTexts == 2       \* texts handed to one batch_extract_skills call
MaxWords == 2       \* words of the text handed to one extract_skills call

\* words a text is written with
Vocabulary == {wPy, wPython3, wSkills, wJavascript, wUse}

SeqsUpTo(S, n) == UNION {[1..k -> S] : k \in 0..n}

\* texts of a batch: "", "Py", "Skills python3", "use javascript"
BatchTexts == {<<>>, <<wPy>>, <<wSkills, wPython3>>, <<wUse, wJavascript>>}

\* no matcher is in use
NoMatcher ==
    /\ similarity_threshold = 0
    /\ top_n_matches = 1
    /\ vectors = "blank"
    /\ cv_list = <<>>
    /\ target_skills = <<>>
    /\ sim_fail_at = <<>>
    /\ sims = <<>>
    /\ matches = <<>>
    /\ ranked = <<>>
    /\ rankDone = FALSE

\* no extractor is in use
NoExtractor ==
    /\ skill_dict = <<>>
    /\ nlp = [segmenter |-> "whole", chunker |-> "none"]
    /\ texts = <<>>
    /\ is_jd_list = <<>>
    /\ nlp_fails = <<>>
    /\ single = <<>>
    /\ batch = <<>>
    /\ batchDone = FALSE

\* no browser session is open
NoSessions ==
    /\ slider = <<>>
    /\ pc = <<>>
    /\ results = <<>>
    /\ trying = <<>>
    /\ pending = <<>>
    /\ shown = <<>>

InitExtractor(textLists) ==
    /\ skill_dict \in Dicts
    /\ nlp \in Backends
    /\ texts \in textLists
    /\ is_jd_list \in [DOMAIN texts -> BOOLEAN]
    \* an empty text gives the backend nothing to fail on
    /\ nlp_fails \in {f \in [DOMAIN texts -> BOOLEAN] :
                        \A i \in DOMAIN texts : f[i] => texts[i] # <<>>}
    /\ single = <<>>
    /\ batch = <<>>
    /\ batchDone = FALSE
    /\ NoMatcher
    /\ NoSessions

\* one call extract_skills(texts[i], is_jd_list[i]), for the next i
ExtractSkills ==
    /\ Len(single) < Len(texts)
    /\ LET i == Len(single) + 1
       IN single' = Append(single,
              extract_skills(texts[i], is_jd_list[i], nlp, nlp_fails[i], skill_dict))
    /\ UNCHANGED <<skill_dict, nlp, texts, is_jd_list, nlp_fails, batch, batchDone>>
    /\ UNCHANGED <<matcherVars, appVars>>

\* the call batch_extract_skills(texts, is_jd_list)
BatchExtractSkills ==
    /\ ~batchDone
    /\ batch' = batch_extract_skills(texts, is_jd_list, nlp, nlp_fails, skill_dict)
    /\ batchDone' = TRUE
    /\ UNCHANGED <<skill_dict, nlp, texts, is_jd_list, nlp_fails, single>>
    /\ UNCHANGED <<matcherVars, appVars>>

NextExtractor == ExtractSkills \/ BatchExtractSkills

\* batches of texts
Init == InitExtractor(SeqsUpTo(BatchTexts, MaxTexts))
Spec == Init /\ [][NextExtractor]_vars

\* one text of up to MaxWords words
InitExtract == InitExtractor({<<t>> : t \in SeqsUpTo(Vocabulary, MaxWords)})
SpecExtract == InitExtract /\ [][NextExtractor]_vars

---------------------------------------------------------------------------
(* Claims about the extractor *)

NoFailure(ts) == [i \in DOMAIN ts |-> FALSE]

\* C1 (batch/single parity): once the batch call has returned, its result at
\* every index i equals, as a set, the result of extract_skills(texts[i],
\* is_jd_list[i]), also for an empty text and when the backend fails on a text.
C1_BatchSingleParity ==
    batchDone =>
        \A i \in DOMAIN single :
            /\ i \in DOMAIN batch
            /\ Range(batch[i]) = Range(single[i])

\* C2 (batch failure isolation): a text on which the backend does not fail
\* gets, in a batch, the result it has when no text of the batch fails.
C2_BatchFailureIsolation ==
    batchDone =>
        \A i \in DOMAIN texts :
            ~nlp_fails[i] =>
                /\ i \in DOMAIN batch
                /\ Range(batch[i]) =
                     Range(batch_extract_skills(texts, is_jd_list, nlp,
                                                NoFailure(texts), skill_dict)[i])


\* the text mentions synonym S, in some letter case, as one of its words and
\* none of its other words contains a skill pattern
OnlyMention(words, S, dict) ==
    \E i \in DOMAIN words :
        /\ Lower(words[i]) = Lower(S)
        /\ \A j \in DOMAIN words \ {i} :
              \A p \in Range(SkillPatterns(dict)) :
                  ~Contains(Lower(p), Lower(words[j]))

\* C3 (canonicalization): for every dictionary entry (C, synonym S), the
\* result of extract_skills on a text whose only skill mention is S, in any
\* letter case, contains C and not S, and holds canonical names only.
C3_Canonicalization ==
    \A i \in DOMAIN single :
        ~nlp_fails[i] =>
            \A e \in Range(Entries(skill_dict)) :
                \A S \in Range(e.synonyms) :
                    OnlyMention(texts[i], S, skill_dict) =>
                        /\ e.canonical \in Range(single[i])
                        /\ S \notin Range(single[i])
                        /\ Range(single[i]) \subseteq Canonicals(skill_dict)

NoDuplicates(s) == \A a, b \in DOMAIN s : a # b => s[a] # s[b]

\* C10 (dedup): the list extract_skills returns holds no canonical name twice.
C10_Dedup == \A i \in DOMAIN single : NoDuplicates(single[i])

\* a JD text in which one canonical skill is matched through two different
\* patterns by the substring scan, and again by the noun-chunk scan and by
\* the JD-context scan, and is returned
C10_Witness ==
    /\ Len(single) = 1
    /\ is_jd_list[1]
    /\ LET words == texts[1]
           doc == Doc(nlp, LowerWords(words))
       IN \E e \in Range(Entries(skill_dict)) :
             /\ \E p, q \in Range(<<e.canonical>> \o e.synonyms) :
                    /\ p # q
                    /\ Contains(p, Lower(TextOf(words)))
                    /\ Contains(q, Lower(TextOf(words)))
             /\ e.canonical \in Range(NounChunkScan(<<>>, doc, skill_dict))
             /\ e.canonical \in Range(JdContextScan(<<>>, doc, skill_dict))
             /\ e.canonical \in Range(single[1])

Flipped(flags) == [i \in DOMAIN flags |-> ~flags[i]]

\* C13 (is_jd has no effect): extract_skills returns the same set for a text
\* with is_jd true and with is_jd false, and so does batch_extract_skills at
\* every position, because what the noun-chunk scan and the JD-context scan
\* find is part of the lowered text and so is found by the substring scan.
C13_FlagHasNoEffect ==
    /\ \A i \in DOMAIN single :
          Range(single[i]) =
              Range(extract_skills(texts[i], ~is_jd_list[i], nlp, nlp_fails[i],
                                   skill_dict))
    /\ batchDone =>
          \A i \in DOMAIN batch :
              Range(batch[i]) =
                  Range(batch_extract_skills(texts, Flipped(is_jd_list), nlp,
                                             nlp_fails, skill_dict)[i])

\* extract_skills has returned for a JD text in which the JD-context scan
\* finds a skill by exact token match and the noun-chunk scan finds one too
C13_Witness ==
    /\ Len(single) = 1
    /\ is_jd_list[1]
    /\ ~nlp_fails[1]
    /\ LET doc == Doc(nlp, LowerWords(texts[1]))
       IN /\ JdContextScan(<<>>, doc, skill_dict) # <<>>
          /\ NounChunkScan(<<>>, doc, skill_dict) # <<>>
    /\ single[1] # <<>>

---------------------------------------------------------------------------
(* Matching runs: the inputs are drawn in Init; the actions call           *)
(* compute_similarity and match_cv_to_jd on each candidate in turn, then   *)
(* rank_cvs_against_jd on the whole list.                                  *)

MaxSkills == 2      \* skills of a skill list, where lists are enumerated
MaxFailAt == 5      \* latest backend call of a compute_similarity that may raise
MaxCvs == 3         \* candidates of one rank_cvs_against_jd call
MaxTopN == 2        \* largest top_n_matches

\* similarity thresholds: 0.0, 0.4, 0.8
Thresholds == {0, 2 * Fifth, 4 * Fifth}

\* skill lists as the extractor produces them: no skill twice
SkillLists == {l \in SeqsUpTo(Skills, MaxSkills) : NoDuplicates(l)}

\* candidate skill lists and target lists of a ranking
CvPool == {<<"python">>, <<"sql">>, <<"java", "python">>}
JdPool == {<<"python">>, <<"python", "sql">>}

\* the candidates (cv_id, cv_skills) of the given skill lists; the cv_id is
\* the candidate's position
Candidates(lists) == [k \in DOMAIN lists |-> [cv_id |-> k, cv_skills |-> lists[k]]]

InitMatcher(cvLists, jdLists, failures) ==
    /\ similarity_threshold \in Thresholds
    /\ top_n_matches \in 1..MaxTopN
    /\ vectors \in VectorTables
    /\ cv_list \in {Candidates(l) : l \in cvLists}
    /\ target_skills \in jdLists
    /\ sim_fail_at \in {f \in [DOMAIN cv_list -> failures] :
                          Cardinality({k \in DOMAIN f : f[k] # 0}) <= 1}
    /\ sims = <<>>
    /\ matches = <<>>
    /\ ranked = <<>>
    /\ rankDone = FALSE
    /\ NoExtractor
    /\ NoSessions

\* compute_similarity(cv_skills, jd_skills) for the next candidate
ComputeSimilarity ==
    /\ Len(sims) < Len(cv_list)
    /\ LET k == Len(sims) + 1
       IN sims' = Append(sims,
              compute_similarity(vectors, cv_list[k].cv_skills, target_skills,
                                 similarity_threshold, sim_fail_at[k]))
    /\ UNCHANGED <<similarity_threshold, top_n_matches, vectors, cv_list,
                   target_skills, sim_fail_at, matches, ranked, rankDone>>
    /\ UNCHANGED <<extractorVars, appVars>>

\* match_cv_to_jd(cv_skills, jd_skills, cv_id) for the next candidate
MatchCvToJd ==
    /\ Len(sims) = Len(cv_list)
    /\ Len(matches) < Len(cv_list)
    /\ LET k == Len(matches) + 1
       IN matches' = Append(matches,
              match_cv_to_jd(vectors, cv_list[k].cv_skills, target_skills,
                             cv_list[k].cv_id, similarity_threshold, sim_fail_at[k]))
    /\ UNCHANGED <<similarity_threshold, top_n_matches, vectors, cv_list,
                   target_skills, sim_fail_at, sims, ranked, rankDone>>
    /\ UNCHANGED <<extractorVars, appVars>>

\* rank_cvs_against_jd(cv_skills_list, jd_skills)
RankCvsAgainstJd ==
    /\ Len(matches) = Len(cv_list)
    /\ ~rankDone
    /\ ranked' = rank_cvs_against_jd(vectors, cv_list, target_skills,
                                     similarity_threshold, top_n_matches, sim_fail_at)
    /\ rankDone' = TRUE
    /\ UNCHANGED <<similarity_threshold, top_n_matches, vectors, cv_list,
                   target_skills, sim_fail_at, sims, matches>>
    /\ UNCHANGED <<extractorVars, appVars>>

NextMatcher == ComputeSimilarity \/ MatchCvToJd \/ RankCvsAgainstJd

\* one candidate against one target, both drawn from all skill lists
InitMatch == InitMatcher({<<l>> : l \in SkillLists}, SkillLists, 0..MaxFailAt)
SpecMatch == InitMatch /\ [][NextMatcher]_vars

\* up to MaxCvs candidates against one target
InitRank == InitMatcher(SeqsUpTo(CvPool, MaxCvs), JdPool, {0, 3})
SpecRank == InitRank /\ [][NextMatcher]_vars

---------------------------------------------------------------------------
(* Claims about the matcher *)

CvSkills(k) == cv_list[k].cv_skills

\* C4 (threshold gating): match_cv_to_jd returns nothing exactly when the
\* score of compute_similarity is strictly below the threshold; otherwise it
\* returns a MatchResult carrying that score and the lengths of the two lists.
C4_ThresholdGating ==
    \A k \in DOMAIN matches :
        /\ (matches[k] = <<>>) <=> (sims[k].score < similarity_threshold)
        /\ matches[k] # <<>> =>
              /\ Len(matches[k]) = 1
              /\ matches[k][1].similarity_score = sims[k].score
              /\ matches[k][1].total_cv_skills = Len(CvSkills(k))
              /\ matches[k][1].total_jd_skills = Len(target_skills)

\* a candidate whose score is exactly a positive threshold gets a MatchResult
C4_Witness ==
    \E k \in DOMAIN matches :
        /\ similarity_threshold > 0
        /\ sims[k].score = similarity_threshold
        /\ matches[k] # <<>>

\* C5 (ranking bounds): the ranked list has at most top_n entries, its scores
\* do not increase, each is at least the threshold, and the list is empty
\* when no candidate clears the threshold.
C5_RankingBounds ==
    rankDone =>
        /\ Len(ranked) <= top_n_matches
        /\ \A i, j \in DOMAIN ranked :
              i < j => ranked[i].similarity_score >= ranked[j].similarity_score
        /\ \A i \in DOMAIN ranked : ranked[i].similarity_score >= similarity_threshold
        /\ (\A k \in DOMAIN sims : sims[k].score < similarity_threshold)
              => ranked = <<>>

\* more candidates cleared the threshold than top_n, and the ranking put a
\* later candidate with a higher score first
C5_Witness ==
    /\ rankDone
    /\ Cardinality({k \in DOMAIN matches : matches[k] # <<>>}) > top_n_matches
    /\ Len(ranked) = top_n_matches
    /\ Len(ranked) >= 2
    /\ ranked[1].similarity_score > ranked[2].similarity_score
    /\ ranked[1].cv_id > ranked[2].cv_id

\* the surviving MatchResults
Survivors == {matches[k][1] : k \in {i \in DOMAIN matches : matches[i] # <<>>}}

\* a comes before b in the stable descending order (cv_id is the input position)
Precedes(a, b) ==
    \/ a.similarity_score > b.similarity_score
    \/ a.similarity_score = b.similarity_score /\ a.cv_id < b.cv_id

\* C6 (tie stability, top-N selection): ranked entries of equal score keep
\* their input order, and the ranked list is the first top_n survivors of the
\* stable descending order.
C6_StableTopN ==
    rankDone =>
        /\ \A i, j \in DOMAIN ranked : i < j => Precedes(ranked[i], ranked[j])
        /\ Range(ranked) \subseteq Survivors
        /\ Len(ranked) = Min(top_n_matches, Cardinality(Survivors))
        /\ \A m \in Survivors \ Range(ranked) :
              \A i \in DOMAIN ranked : Precedes(ranked[i], m)

\* three candidates, the first and third tied above the threshold, the
\* second below it, top_n = 2: the ranking is the first, then the third
C6_Witness ==
    /\ rankDone
    /\ Len(cv_list) = 3
    /\ top_n_matches = 2
    /\ matches[2] = <<>>
    /\ matches[1] # <<>> /\ matches[3] # <<>>
    /\ sims[1].score = sims[3].score
    /\ [i \in DOMAIN ranked |-> ranked[i].cv_id] = <<1, 3>>

\* C8 (empty-input symmetry): with either list empty compute_similarity
\* returns (0.0, []) and makes no backend call.
C8_EmptyInputSymmetry ==
    \A k \in DOMAIN sims :
        (CvSkills(k) = <<>> \/ target_skills = <<>>) =>
            sims[k] = SimilarityResult(0, <<>>, 0)

\* compute_similarity has returned for an empty candidate list and a
\* non-empty target, with a backend that would raise on its first call
C8_Witness ==
    \E k \in DOMAIN sims :
        /\ CvSkills(k) = <<>>
        /\ target_skills # <<>>
        /\ sim_fail_at[k] = 1

\* the backend calls of one compute_similarity on non-empty lists: the two
\* joined documents, then every candidate skill and, for each, every target skill
TotalCalls(cv, jd) == 2 + Len(cv) * (1 + Len(jd))

\* the backend raises during candidate k's compute_similarity
BackendRaises(k) ==
    /\ CvSkills(k) # <<>>
    /\ target_skills # <<>>
    /\ sim_fail_at[k] \in 1..TotalCalls(CvSkills(k), target_skills)

\* C9 (failure absorption): when the backend raises during compute_similarity
\* the call returns (0.0, []), and match_cv_to_jd and rank_cvs_against_jd
\* return normally with that result, no evidence kept.
C9_FailureAbsorbed ==
    \A k \in DOMAIN sims :
        BackendRaises(k) =>
            /\ sims[k].score = 0
            /\ sims[k].matched_skills = <<>>
            /\ k \in DOMAIN matches =>
                  \/ matches[k] = <<>>
                  \/ /\ matches[k][1].similarity_score = 0
                     /\ matches[k][1].matched_skills = <<>>
            /\ rankDone =>
                  \A i \in DOMAIN ranked :
                      ranked[i].cv_id = cv_list[k].cv_id =>
                          /\ ranked[i].similarity_score = 0
                          /\ ranked[i].matched_skills = <<>>

\* the backend raised after evidence had been collected, and the call has
\* returned
C9_Witness ==
    \E k \in DOMAIN sims :
        /\ BackendRaises(k)
        /\ TryBlock(vectors, CvSkills(k), target_skills, similarity_threshold,
                    sim_fail_at[k]).matched_skills # <<>>
        /\ rankDone

\* the largest similarity of candidate skill c to a target skill
MaxSimilarity(c) ==
    LET all == {WordSimilarity(vectors, c, t) : t \in Range(target_skills)}
    IN CHOOSE m \in all : \A x \in all : x <= m

\* compute_similarity ran its loops to the end for candidate k
RanToEnd(k) ==
    /\ CvSkills(k) # <<>>
    /\ target_skills # <<>>
    /\ ~BackendRaises(k)

\* C11 (pairwise evidence): for non-empty inputs, a candidate skill has an
\* evidence entry exactly when the maximum of its similarities to the target
\* skills is at least the threshold, and every entry names a target skill of
\* the list that attains that maximum.
C11_PairwiseEvidence ==
    \A k \in DOMAIN sims :
        RanToEnd(k) =>
            LET evidence == Range(sims[k].matched_skills)
            IN /\ \A c \in Range(CvSkills(k)) :
                      (\E e \in evidence : e.cv_skill = c)
                          <=> (MaxSimilarity(c) >= similarity_threshold)
               /\ \A e \in evidence :
                      /\ e.best_match \in Range(target_skills)
                      /\ WordSimilarity(vectors, e.cv_skill, e.best_match)
                             = MaxSimilarity(e.cv_skill)

\* C12 (aggregate score): for non-empty inputs and no backend failure, the
\* score is (overall similarity + average of the per-candidate maxima that
\* are at least the threshold) / 2, the average being 0 when there is none,
\* and as many values are averaged as there are evidence entries.
C12_AggregateScore ==
    \A k \in DOMAIN sims :
        RanToEnd(k) =>
            LET cv == CvSkills(k)
                kept == {i \in DOMAIN cv : MaxSimilarity(cv[i]) >= similarity_threshold}
                total == SumSeq([i \in DOMAIN cv |->
                                    IF i \in kept THEN MaxSimilarity(cv[i]) ELSE 0])
                n == Cardinality(kept)
                overall == DocSimilarity(vectors, cv, target_skills)
            IN /\ IF n = 0 THEN 2 * sims[k].score = overall
                  ELSE 2 * n * sims[k].score = n * overall + total
               /\ Len(TryBlock(vectors, cv, target_skills, similarity_threshold,
                               sim_fail_at[k]).similarities)
                      = Len(sims[k].matched_skills)

---------------------------------------------------------------------------
(* app.main.  load_matcher is an st.cache_resource: every browser session  *)
(* gets the same SkillMatcher object, and each session's script run is a   *)
(* thread of its own.  A run writes its slider value into the shared       *)
(* matcher.config (line 85) and later calls rank_cvs_against_jd (line      *)
(* 139).  For every candidate that call reads the threshold from           *)
(* matcher.config once per candidate skill, inside the loop of             *)
(* compute_similarity (line 69 of matcher.py), and once more in            *)
(* match_cv_to_jd (line 88); another session's write can land between any  *)
(* two of these reads.  The sessions here rank the same uploads; only      *)
(* their slider values differ.                                             *)

NumSessions == 2
Sessions == 1..NumSessions

\* the CVs uploaded, as their extracted skill lists
Uploads == { << <<"python">>, <<"sql">> >>,
             << <<"sql">>, <<"java", "python">> >>,
             << <<"java", "sql">> >> }

\* a session's place in its script run; k is the candidate it is at
At(place, k) == [at |-> place, k |-> k, j |-> 0]

\* inside the loop of compute_similarity for candidate k, about to take
\* cv_skills[j]
AtSkill(k, j) == [at |-> "skill", k |-> k, j |-> j]

InitApp ==
    /\ similarity_threshold \in Thresholds
    /\ top_n_matches \in 1..MaxTopN
    /\ vectors = "vectors"
    /\ cv_list \in {Candidates(l) : l \in Uploads}
    /\ target_skills \in JdPool
    /\ sim_fail_at = [k \in DOMAIN cv_list |-> 0]
    /\ sims = <<>>
    /\ matches = <<>>
    /\ ranked = <<>>
    /\ rankDone = FALSE
    /\ slider \in [Sessions -> Thresholds]
    /\ pc = [s \in Sessions |-> At("slider", 1)]
    /\ results = [s \in Sessions |-> <<>>]
    /\ trying = [s \in Sessions |-> TryStart(0)]
    /\ pending = [s \in Sessions |-> SimilarityResult(0, <<>>, 0)]
    /\ shown = [s \in Sessions |-> <<>>]
    /\ NoExtractor

\* matcher.config['matcher']['similarity_threshold'] = similarity_threshold
SetThreshold(s) ==
    /\ pc[s].at = "slider"
    /\ similarity_threshold' = slider[s]
    /\ pc' = [pc EXCEPT ![s] = At("compute", 1)]
    /\ UNCHANGED <<top_n_matches, vectors, cv_list, target_skills, sim_fail_at,
                   sims, matches, ranked, rankDone>>
    /\ UNCHANGED <<slider, results, trying, pending, shown>>
    /\ UNCHANGED extractorVars

\* rank_cvs_against_jd, candidate pc[s].k: the compute_similarity call of
\* match_cv_to_jd (matcher.py line 87) up to its loop (lines 43-56): the
\* guard, the two documents and their similarity.  Nothing here reads the
\* threshold.
SessionCompute(s) ==
    /\ pc[s].at = "compute"
    /\ LET k == pc[s].k
           st == TryStart(sim_fail_at[k])
       IN IF EitherEmpty(CvSkills(k), target_skills)
          THEN /\ pending' = [pending EXCEPT ![s] = SimilarityResult(0, <<>>, 0)]
               /\ pc' = [pc EXCEPT ![s] = At("gate", k)]
               /\ UNCHANGED trying
          ELSE IF st.raised
          THEN /\ pending' = [pending EXCEPT ![s] = OnException(st)]
               /\ pc' = [pc EXCEPT ![s] = At("gate", k)]
               /\ trying' = [trying EXCEPT ![s] = st]
          ELSE /\ trying' = [trying EXCEPT ![s] = st]
               /\ pc' = [pc EXCEPT ![s] = AtSkill(k, 1)]
               /\ UNCHANGED pending
    /\ UNCHANGED <<matcherVars, extractorVars>>
    /\ UNCHANGED <<slider, results, shown>>

\* compute_similarity, candidate pc[s].k: one iteration of the loop, for
\* cv_skills[pc[s].j] (matcher.py lines 59-71).  Line 69 reads the threshold
\* the shared matcher.config holds now.  After the last skill the call
\* returns (lines 74-80); when the backend raises it returns at once
\* (lines 81-83).
SessionSkill(s) ==
    /\ pc[s].at = "skill"
    /\ LET k == pc[s].k
           j == pc[s].j
           cv == CvSkills(k)
           st == PairwiseStep(vectors, cv[j], target_skills, similarity_threshold,
                              sim_fail_at[k], trying[s])
       IN /\ trying' = [trying EXCEPT ![s] = st]
          /\ IF ~st.raised /\ j < Len(cv)
             THEN /\ pc' = [pc EXCEPT ![s] = AtSkill(k, j + 1)]
                  /\ UNCHANGED pending
             ELSE /\ pc' = [pc EXCEPT ![s] = At("gate", k)]
                  /\ pending' = [pending EXCEPT ![s] =
                         Returned(vectors, cv, target_skills, st)]
    /\ UNCHANGED <<matcherVars, extractorVars>>
    /\ UNCHANGED <<slider, results, shown>>

\* rank_cvs_against_jd, candidate pc[s].k: the threshold test of
\* match_cv_to_jd and results.append (matcher.py lines 88-97, 104-105)
SessionGate(s) ==
    /\ pc[s].at = "gate"
    /\ LET k == pc[s].k
       IN /\ results' = [results EXCEPT ![s] =
                 @ \o GateMatch(pending[s], CvSkills(k), target_skills,
                                cv_list[k].cv_id, similarity_threshold)]
          /\ pc' = [pc EXCEPT ![s] =
                 IF k < Len(cv_list) THEN At("compute", k + 1) ELSE At("sort", k)]
    /\ UNCHANGED <<matcherVars, extractorVars>>
    /\ UNCHANGED <<slider, trying, pending, shown>>

\* rank_cvs_against_jd: sort and slice (matcher.py lines 108-113)
SessionSort(s) ==
    /\ pc[s].at = "sort"
    /\ shown' = [shown EXCEPT ![s] =
           Slice(SortDescending(<<>>, results[s]), top_n_matches)]
    /\ pc' = [pc EXCEPT ![s] = At("done", pc[s].k)]
    /\ UNCHANGED <<matcherVars, extractorVars>>
    /\ UNCHANGED <<slider, results, trying, pending>>

NextApp ==
    \E s \in Sessions :
        \/ SetThreshold(s)
        \/ SessionCompute(s)
        \/ SessionSkill(s)
        \/ SessionGate(s)
        \/ SessionSort(s)

SpecApp == InitApp /\ [][NextApp]_vars

\* C7 (concurrent-request independence): a session's ranking is the one it
\* produces running alone with its own slider value as the threshold.
C7_RequestIndependence ==
    \A s \in DOMAIN pc :
        pc[s].at = "done" =>
            shown[s] = rank_cvs_against_jd(vectors, cv_list, target_skills,
                                           slider[s], top_n_matches, sim_fail_at)

=============================================================================
